---- MODULE Spec2Model ----
(***************************************************************************)
(* Model of data/data_downloader.py: the catalog filter, the resolution of *)
(* TIC ids to sectors, the construction of TESS-SPOC URIs and the download *)
(* loop.  Python strings are sequences of one-character strings, so that   *)
(* padding, slicing, splitting and joining are computed, not assumed.      *)
(***************************************************************************)
EXTENDS Integers, Sequences, FiniteSets, TLC

(***************************************************************************)
(* Bounds of the model                                                     *)
(***************************************************************************)
MaxRows == 2
MaxBodyLen == 2

(***************************************************************************)
(* Python string primitives                                                *)
(***************************************************************************)
DigitChars == <<"0", "1", "2", "3", "4", "5", "6", "7", "8", "9">>

IsDigit(c) == \E i \in 1..Len(DigitChars) : DigitChars[i] = c

DigitVal(c) == (CHOOSE i \in 1..Len(DigitChars) : DigitChars[i] = c) - 1

RECURSIVE Rep(_, _)
Rep(c, n) == IF n <= 0 THEN <<>> ELSE <<c>> \o Rep(c, n - 1)

\* rjust with the fill on the wrong side (str.ljust)
rjust_left(s, width, fillchar) ==
    IF Len(s) >= width THEN s ELSE s \o Rep(fillchar, width - Len(s))

\* str.rjust(width, fillchar): the string itself when it is already
\* at least width characters long, never a truncation.
rjust(s, width, fillchar) ==
    IF Len(s) >= width THEN s ELSE Rep(fillchar, width - Len(s)) \o s

\* s[i : i + n] with a 0-based start: Python clips the slice at the end.
Slice(s, i, n) ==
    SubSeq(s, i + 1, IF i + n <= Len(s) THEN i + n ELSE Len(s))

\* sep.join(parts)
RECURSIVE Join(_, _)
Join(parts, sep) ==
    IF parts = <<>> THEN <<>>
    ELSE IF Len(parts) = 1 THEN parts[1]
    ELSE parts[1] \o sep \o Join(Tail(parts), sep)

\* s.split(sep) for a one-character separator: "" splits to [""].
RECURSIVE SplitFrom(_, _, _)
SplitFrom(s, sep, cur) ==
    IF s = <<>> THEN <<cur>>
    ELSE IF Head(s) = sep THEN <<cur>> \o SplitFrom(Tail(s), sep, <<>>)
    ELSE SplitFrom(Tail(s), sep, Append(cur, Head(s)))

split(s, sep) == SplitFrom(s, sep, <<>>)

\* str.strip() restricted to the blank character
RECURSIVE LStrip(_)
LStrip(s) == IF s # <<>> /\ Head(s) = " " THEN LStrip(Tail(s)) ELSE s

RECURSIVE RStrip(_)
RStrip(s) ==
    IF s # <<>> /\ s[Len(s)] = " " THEN RStrip(SubSeq(s, 1, Len(s) - 1)) ELSE s

strip(s) == RStrip(LStrip(s))

\* int(s): blanks around, one optional sign, then decimal digits in which
\* single underscores may separate digits.
Unsigned(s) ==
    LET t == strip(s)
    IN IF t # <<>> /\ t[1] \in {"+", "-"} THEN Tail(t) ELSE t

IntParses(s) ==
    LET b == Unsigned(s)
    IN /\ b # <<>>
       /\ \A i \in 1..Len(b) : IsDigit(b[i]) \/ b[i] = "_"
       /\ IsDigit(b[1])
       /\ IsDigit(b[Len(b)])
       /\ \A i \in 1..(Len(b) - 1) : ~(b[i] = "_" /\ b[i + 1] = "_")

RECURSIVE DigitsValue(_, _)
DigitsValue(b, acc) ==
    IF b = <<>> THEN acc
    ELSE IF Head(b) = "_" THEN DigitsValue(Tail(b), acc)
    ELSE DigitsValue(Tail(b), 10 * acc + DigitVal(Head(b)))

int(s) ==
    LET t == strip(s)
        v == DigitsValue(Unsigned(s), 0)
    IN IF t # <<>> /\ t[1] = "-" THEN 0 - v ELSE v

(***************************************************************************)
(* Module constants                                                        *)
(***************************************************************************)
CONSIDERED_SECTORS == 1..26

POSITIVE_DISPOSITIONS == {"CP", "KP"}

DOWNLOAD_PATH == "positive"

TicWidth == 16
SectorWidth == 4
GroupSize == 4

UriScheme ==
    <<"m", "a", "s", "t", ":", "H", "L", "S", "P", "/", "t", "e", "s", "s",
      "-", "s", "p", "o", "c", "/">>

TargetDir == <<"/", "t", "a", "r", "g", "e", "t", "/">>

FilePrefix ==
    <<"/", "h", "l", "s", "p", "_", "t", "e", "s", "s", "-", "s", "p", "o",
      "c", "_", "t", "e", "s", "s", "_", "p", "h", "o", "t", "_">>

FileSuffix ==
    <<"_", "t", "e", "s", "s", "_", "v", "1", "_", "l", "c", ".", "f", "i",
      "t", "s">>

(***************************************************************************)
(* generate_uri                                                            *)
(***************************************************************************)
\* the groups sliced one character short: tic[i : i + 3]
RECURSIVE Groups_short(_, _)
Groups_short(t, i) ==
    IF i >= Len(t) THEN <<>>
    ELSE <<Slice(t, i, GroupSize - 1)>> \o Groups_short(t, i + GroupSize)

\* [tic[i : i + 4] for i in range(0, len(tic), 4)]
RECURSIVE Groups(_, _)
Groups(t, i) ==
    IF i >= Len(t) THEN <<>>
    ELSE <<Slice(t, i, GroupSize)>> \o Groups(t, i + GroupSize)

generate_uri(tic, sector) ==
    LET tic1    == rjust(tic, TicWidth, "0")
        sector1 == <<"s">> \o rjust(sector, SectorWidth, "0")
        target  == Join(Groups(tic1, 0), <<"/">>)
    IN UriScheme \o sector1 \o TargetDir \o target \o FilePrefix
         \o tic1 \o <<"-">> \o sector1 \o FileSuffix

(***************************************************************************)
(* State                                                                   *)
(***************************************************************************)
VARIABLES
    pc,          \* position of main
    cache_file,  \* exofop_toi.csv: whether it exists and the table it holds
    catalog,     \* the table get_toi_df returned
    toi_df,      \* main's toi_df
    row,         \* rows of toi_df that get_tic_to_sectors has consumed
    tic_dict,    \* the insertion-ordered dict, as a sequence of entries
    error,       \* the exception that ended main, "none" when there is none
    ti,          \* download_fits: index of the current key
    si,          \* download_fits: index of the current sector of that key
    downloads,   \* calls of mission.download_file, in order
    uri_calls    \* calls of generate_uri made by a direct caller, in order

vars ==
    <<pc, cache_file, catalog, toi_df, row, tic_dict, error, ti, si,
      downloads, uri_calls>>

main_vars ==
    <<pc, cache_file, catalog, toi_df, row, tic_dict, error, ti, si,
      downloads>>

(***************************************************************************)
(* Inputs of generate_uri                                                  *)
(***************************************************************************)
RECURSIVE StringsUpTo(_, _)
StringsUpTo(alphabet, n) ==
    IF n = 0 THEN {<<>>}
    ELSE LET shorter == StringsUpTo(alphabet, n - 1)
         IN shorter \cup {<<c>> \o s : c \in alphabet, s \in shorter}

ExampleTic == <<"1", "2", "3", "4", "5", "6", "7", "8">>

TicBodies == StringsUpTo({"1", "2"}, MaxBodyLen) \cup {ExampleTic}

LeadingZeros == {0, 1, TicWidth - 2, TicWidth - 1, TicWidth}

\* digit strings of 0 to TicWidth + MaxBodyLen characters
TicInputs == {Rep("0", k) \o b : k \in LeadingZeros, b \in TicBodies}

EpochInputs == {7, 26, 70, 9999, 10000, 123456}

\* str(e) of a positive integer
RECURSIVE DecimalStr(_)
DecimalStr(e) ==
    IF e < 10 THEN <<DigitChars[e + 1]>>
    ELSE DecimalStr(e \div 10) \o <<DigitChars[(e % 10) + 1]>>

(***************************************************************************)
(* A direct caller of generate_uri: two calls, each with a target id and   *)
(* the decimal text of an epoch.  generate_uri has no raise statement, so  *)
(* every call returns.                                                     *)
(***************************************************************************)
UriCall(t, e) ==
    [tic |-> t, epoch |-> e, sector |-> DecimalStr(e), outcome |-> "returned",
     uri |-> generate_uri(t, DecimalStr(e))]

FirstUriCall ==
    /\ uri_calls = <<>>
    /\ \E t \in TicInputs, e \in EpochInputs :
          uri_calls' = <<UriCall(t, e)>>
    /\ UNCHANGED main_vars

SecondUriCall ==
    /\ Len(uri_calls) = 1
    /\ \E t \in TicInputs, e \in EpochInputs :
          uri_calls' = Append(uri_calls, UriCall(t, e))
    /\ UNCHANGED main_vars

InitUri ==
    /\ pc = "main"
    /\ cache_file = [exists |-> FALSE, table |-> <<>>]
    /\ catalog = <<>>
    /\ toi_df = <<>>
    /\ row = 0
    /\ tic_dict = <<>>
    /\ error = "none"
    /\ ti = 1
    /\ si = 1
    /\ downloads = <<>>
    /\ uri_calls = <<>>

NextUri == FirstUriCall \/ SecondUriCall

SpecUri == InitUri /\ [][NextUri]_vars

(***************************************************************************)
(* Claims about generate_uri                                               *)
(***************************************************************************)
Digit(n) == DigitChars[n + 1]

IsDigitString(s) == \A i \in 1..Len(s) : IsDigit(s[i])

PaddedId(t) ==
    [i \in 1..16 |-> IF i <= 16 - Len(t) THEN "0" ELSE t[i - (16 - Len(t))]]

EpochToken(e) ==
    <<"s", Digit(e \div 1000), Digit((e \div 100) % 10),
      Digit((e \div 10) % 10), Digit(e % 10)>>

Template(t, e) ==
    LET P == PaddedId(t)
        E == EpochToken(e)
    IN UriScheme \o E \o TargetDir
         \o SubSeq(P, 1, 4) \o <<"/">> \o SubSeq(P, 5, 8) \o <<"/">>
         \o SubSeq(P, 9, 12) \o <<"/">> \o SubSeq(P, 13, 16)
         \o FilePrefix \o P \o <<"-">> \o E \o FileSuffix

ExampleUri ==
    <<"m", "a", "s", "t", ":", "H", "L", "S", "P", "/", "t", "e", "s",
      "s", "-", "s", "p", "o", "c", "/", "s", "0", "0", "0", "7", "/",
      "t", "a", "r", "g", "e", "t", "/", "0", "0", "0", "0", "/", "0",
      "0", "0", "0", "/", "1", "2", "3", "4", "/", "5", "6", "7", "8",
      "/", "h", "l", "s", "p", "_", "t", "e", "s", "s", "-", "s", "p",
      "o", "c", "_", "t", "e", "s", "s", "_", "p", "h", "o", "t", "_",
      "0", "0", "0", "0", "0", "0", "0", "0", "1", "2", "3", "4", "5",
      "6", "7", "8", "-", "s", "0", "0", "0", "7", "_", "t", "e", "s",
      "s", "_", "v", "1", "_", "l", "c", ".", "f", "i", "t", "s">>

Accepted(c) ==
    /\ IsDigitString(c.tic)
    /\ Len(c.tic) <= 16
    /\ c.epoch \in 1..9999

\* C1: for a target id of 1 to 16 digits and an epoch in 1..9999,
\* generate_uri returns exactly the template: scheme, epoch token 's' plus
\* the epoch zero-padded to 4 digits, '/target/', the four 4-character
\* groups of the id zero-padded to 16, the file prefix, the padded id, '-',
\* the epoch token and the file suffix; id 12345678 with epoch 7 gives the
\* example identifier.
C1_UriIsTemplate ==
    \A i \in 1..Len(uri_calls) :
       LET c == uri_calls[i]
       IN /\ (Accepted(c) /\ Len(c.tic) >= 1) =>
                (c.outcome = "returned" /\ c.uri = Template(c.tic, c.epoch))
          /\ (c.tic = ExampleTic /\ c.epoch = 7) => c.uri = ExampleUri

C1_Witness ==
    \E i \in 1..Len(uri_calls) :
       /\ uri_calls[i].tic = ExampleTic
       /\ uri_calls[i].epoch = 7
       /\ uri_calls[i].outcome = "returned"

RECURSIVE StripLeadingZeros(_)
StripLeadingZeros(s) ==
    IF s # <<>> /\ Head(s) = "0" THEN StripLeadingZeros(Tail(s)) ELSE s

\* C2 (as claimed): two accepted input pairs with the same identifier are
\* the same pair: the same target id string and the same epoch.
C2_UriInjective ==
    \A i, j \in 1..Len(uri_calls) :
       (/\ Accepted(uri_calls[i])
        /\ Accepted(uri_calls[j])
        /\ uri_calls[i].uri = uri_calls[j].uri)
       => (/\ uri_calls[i].tic = uri_calls[j].tic
           /\ uri_calls[i].epoch = uri_calls[j].epoch)

\* C2 (amended): two accepted input pairs with the same identifier have
\* the same epoch and target ids that are equal up to leading zeros.
C2_UriInjectiveUpToZeros ==
    \A i, j \in 1..Len(uri_calls) :
       (/\ Accepted(uri_calls[i])
        /\ Accepted(uri_calls[j])
        /\ uri_calls[i].uri = uri_calls[j].uri)
       => (/\ StripLeadingZeros(uri_calls[i].tic)
                = StripLeadingZeros(uri_calls[j].tic)
           /\ uri_calls[i].epoch = uri_calls[j].epoch)

C2_Witness ==
    /\ Len(uri_calls) = 2
    /\ Accepted(uri_calls[1])
    /\ Accepted(uri_calls[2])
    /\ uri_calls[1].uri = uri_calls[2].uri
    /\ uri_calls[1].tic # uri_calls[2].tic

\* C3: a call with a target id longer than 16 characters fails with
\* IdentifierTooLongError and returns no identifier.
C3_TooLongIdFails ==
    \A i \in 1..Len(uri_calls) :
       Len(uri_calls[i].tic) > 16 =>
          (/\ uri_calls[i].outcome = "IdentifierTooLongError"
           /\ uri_calls[i].uri = <<>>)

\* the characters of an identifier between the scheme and the next '/'
RECURSIVE UpToSlash(_)
UpToSlash(s) ==
    IF s = <<>> \/ Head(s) = "/" THEN <<>> ELSE <<Head(s)>> \o UpToSlash(Tail(s))

EpochTokenOf(uri) == UpToSlash(SubSeq(uri, Len(UriScheme) + 1, Len(uri)))

\* C4: a call with an epoch >= 10000 fails with EpochOutOfRangeError and
\* returns no identifier, and the epoch token of a returned identifier is
\* 's' plus exactly 4 digits.
C4_BigEpochFails ==
    \A i \in 1..Len(uri_calls) :
       LET c == uri_calls[i]
           tok == EpochTokenOf(c.uri)
       IN /\ c.epoch >= 10000 =>
                (c.outcome = "EpochOutOfRangeError" /\ c.uri = <<>>)
          /\ c.outcome = "returned" =>
                (/\ Len(tok) = 5
                 /\ tok[1] = "s"
                 /\ IsDigitString(Tail(tok)))

(***************************************************************************)
(* Catalog tables read by get_toi_df.  A row holds the three columns main  *)
(* uses: "TIC ID", "TFOPWG Disposition" and "Sectors".                     *)
(***************************************************************************)
TicIds == {ExampleTic, <<"7">>}

Dispositions == {"CP", "KP", "FP"}

SectorCells ==
    { <<"1", ",", "3", "0", ",", "5">>,          \* "1,30,5"
      <<"3", "0", ",", "3", "1">>,               \* "30,31"
      <<"1", ",", "1">>,                         \* "1,1"
      <<"0", ",", "2", "6", ",", "2", "7">>,     \* "0,26,27"
      <<"1", ",", " ", "5">>,                    \* "1, 5"
      <<"1", ",", "x">>,                         \* "1,x"
      <<>> }                                     \* ""

Rows == [tic_id : TicIds, disposition : Dispositions, sectors : SectorCells]

Tables == UNION {[1..n -> Rows] : n \in 0..MaxRows}

\* what mission.download_file reports for one call
DownloadResults == {"COMPLETE", "ERROR"}

(***************************************************************************)
(* filter_positive_toi_df                                                  *)
(***************************************************************************)
RECURSIVE SelectRows(_, _)
SelectRows(df, mask) ==
    IF df = <<>> THEN <<>>
    ELSE (IF mask[1] THEN <<df[1]>> ELSE <<>>)
           \o SelectRows(Tail(df), Tail(mask))

\* the filter with "KP" left out of the accepted dispositions
filter_only_cp(df) ==
    SelectRows(df, [i \in 1..Len(df) |-> df[i].disposition = "CP"])

\* the filter with the mask ignored
filter_nothing(df) ==
    SelectRows(df, [i \in 1..Len(df) |-> TRUE])

\* toi_df[toi_df["TFOPWG Disposition"].isin(["CP", "KP"])]
filter_positive_toi_df(df) ==
    SelectRows(df, [i \in 1..Len(df) |->
                      df[i].disposition \in POSITIVE_DISPOSITIONS])

(***************************************************************************)
(* get_tic_to_sectors                                                      *)
(***************************************************************************)
\* filter(lambda ...) over the tokens, in order
RECURSIVE FilterSectors(_)
FilterSectors(tokens) ==
    IF tokens = <<>> THEN <<>>
    ELSE (IF int(Head(tokens)) \in CONSIDERED_SECTORS
            THEN <<Head(tokens)>> ELSE <<>>)
           \o FilterSectors(Tail(tokens))

\* int(sector) raises ValueError on a token it cannot parse
RaisesValueError(r) ==
    \E k \in 1..Len(split(r.sectors, ",")) :
       ~IntParses(split(r.sectors, ",")[k])

HasKey(d, tic) == \E k \in 1..Len(d) : d[k].tic = tic

KeyIndex(d, tic) == CHOOSE k \in 1..Len(d) : d[k].tic = tic

\* d[tic] = sectors on an insertion-ordered dict: a new key goes last,
\* an existing key keeps its place and takes the new value
DictSet(d, tic, sectors) ==
    IF HasKey(d, tic)
    THEN [d EXCEPT ![KeyIndex(d, tic)] = [tic |-> tic, sectors |-> sectors]]
    ELSE Append(d, [tic |-> tic, sectors |-> sectors])

\* the loop body without the "if sectors:" guard
ResolveRow_unguarded(d, r) ==
    DictSet(d, r.tic_id, FilterSectors(split(r.sectors, ",")))

\* the loop body keeping the first value of a key (dict.setdefault)
ResolveRow_setdefault(d, r) ==
    LET sectors == FilterSectors(split(r.sectors, ","))
    IN IF sectors # <<>> /\ ~HasKey(d, r.tic_id)
       THEN DictSet(d, r.tic_id, sectors) ELSE d

\* one iteration of the loop, for a row whose tokens all parse
ResolveRow(d, r) ==
    LET sectors == FilterSectors(split(r.sectors, ","))
    IN IF sectors # <<>> THEN DictSet(d, r.tic_id, sectors) ELSE d

(***************************************************************************)
(* main: get_toi_df, filter_positive_toi_df, get_tic_to_sectors and        *)
(* download_fits, in that order                                            *)
(***************************************************************************)
NoCache == [exists |-> FALSE, table |-> <<>>]

Init ==
    /\ pc = "main"
    /\ cache_file \in {NoCache} \cup {[exists |-> TRUE, table |-> t] : t \in Tables}
    /\ catalog = <<>>
    /\ toi_df = <<>>
    /\ row = 0
    /\ tic_dict = <<>>
    /\ error = "none"
    /\ ti = 1
    /\ si = 1
    /\ downloads = <<>>
    /\ uri_calls = <<>>

\* get_toi_df: the cached table when the cache file exists, else the
\* table at the URL, which is then written to the cache file
get_toi_df ==
    /\ pc = "main"
    /\ IF cache_file.exists
       THEN /\ catalog' = cache_file.table
            /\ UNCHANGED cache_file
       ELSE \E t \in Tables :
               /\ catalog' = t
               /\ cache_file' = [exists |-> TRUE, table |-> t]
    /\ toi_df' = catalog'
    /\ pc' = "loaded"
    /\ UNCHANGED <<row, tic_dict, error, ti, si, downloads, uri_calls>>

\* toi_df = filter_positive_toi_df(toi_df); get_tic_to_sectors then
\* starts with an empty dict
filter_step ==
    /\ pc = "loaded"
    /\ toi_df' = filter_positive_toi_df(toi_df)
    /\ tic_dict' = <<>>
    /\ row' = 0
    /\ pc' = "resolving"
    /\ UNCHANGED <<cache_file, catalog, error, ti, si, downloads, uri_calls>>

\* one iteration of the loop of get_tic_to_sectors; a ValueError of
\* int() is caught nowhere and ends main
get_tic_to_sectors_row ==
    /\ pc = "resolving"
    /\ row < Len(toi_df)
    /\ IF RaisesValueError(toi_df[row + 1])
       THEN /\ pc' = "failed"
            /\ error' = "ValueError"
            /\ UNCHANGED <<row, tic_dict>>
       ELSE /\ tic_dict' = ResolveRow(tic_dict, toi_df[row + 1])
            /\ row' = row + 1
            /\ UNCHANGED <<pc, error>>
    /\ UNCHANGED <<cache_file, catalog, toi_df, ti, si, downloads, uri_calls>>

\* return tic_dict; download_fits starts at the first key
get_tic_to_sectors_return ==
    /\ pc = "resolving"
    /\ row = Len(toi_df)
    /\ pc' = "downloading"
    /\ ti' = 1
    /\ si' = 1
    /\ UNCHANGED <<cache_file, catalog, toi_df, row, tic_dict, error,
                   downloads, uri_calls>>

\* a loop that calls once more, without advancing, after a reported
\* failure that is not itself a second attempt
download_fits_of_tic_retry ==
    /\ pc = "downloading"
    /\ ti <= Len(tic_dict)
    /\ si <= Len(tic_dict[ti].sectors)
    /\ \E result \in DownloadResults :
          /\ downloads' = Append(downloads,
                [uri |-> generate_uri(tic_dict[ti].tic, tic_dict[ti].sectors[si]),
                 local_path |-> DOWNLOAD_PATH,
                 result |-> result])
          /\ si' = IF /\ result = "ERROR"
                      /\ \/ downloads = <<>>
                         \/ downloads[Len(downloads)].result # "ERROR"
                   THEN si ELSE si + 1
    /\ UNCHANGED <<pc, cache_file, catalog, toi_df, row, tic_dict, error, ti,
                   uri_calls>>

\* download_fits_of_tic for the current key and sector: one call of
\* mission.download_file, whose result is printed and not looked at
download_fits_of_tic ==
    /\ pc = "downloading"
    /\ ti <= Len(tic_dict)
    /\ si <= Len(tic_dict[ti].sectors)
    /\ \E result \in DownloadResults :
          downloads' = Append(downloads,
                [uri |-> generate_uri(tic_dict[ti].tic, tic_dict[ti].sectors[si]),
                 local_path |-> DOWNLOAD_PATH,
                 result |-> result])
    /\ si' = si + 1
    /\ UNCHANGED <<pc, cache_file, catalog, toi_df, row, tic_dict, error, ti,
                   uri_calls>>

\* the inner loop of download_fits is exhausted: the next key
download_fits_next_tic ==
    /\ pc = "downloading"
    /\ ti <= Len(tic_dict)
    /\ si > Len(tic_dict[ti].sectors)
    /\ ti' = ti + 1
    /\ si' = 1
    /\ UNCHANGED <<pc, cache_file, catalog, toi_df, row, tic_dict, error,
                   downloads, uri_calls>>

\* the outer loop is exhausted: download_fits and main return
download_fits_return ==
    /\ pc = "downloading"
    /\ ti > Len(tic_dict)
    /\ pc' = "done"
    /\ UNCHANGED <<cache_file, catalog, toi_df, row, tic_dict, error, ti, si,
                   downloads, uri_calls>>

Next ==
    \/ get_toi_df
    \/ filter_step
    \/ get_tic_to_sectors_row
    \/ get_tic_to_sectors_return
    \/ download_fits_of_tic
    \/ download_fits_next_tic
    \/ download_fits_return

Spec == Init /\ [][Next]_vars

(***************************************************************************)
(* Claims about the pipeline                                               *)
(***************************************************************************)
Returned == pc \in {"downloading", "done"}

Tokens(r) == split(r.sectors, ",")

\* for every cell of the Sectors column, its tokens whose number lies in
\* [1, 26], in order
InRangeOfCell ==
    [c \in SectorCells |->
       SelectSeq(split(c, ","),
                 LAMBDA tok : IntParses(tok) /\ int(tok) >= 1 /\ int(tok) <= 26)]

\* the tokens of a row whose number lies in [1, 26], in order
InRange(r) == InRangeOfCell[r.sectors]

\* for every target id and cell, the identifiers of the cell's in-range tokens
UrisOfCell ==
    [t \in TicIds |->
       [c \in SectorCells |->
          {generate_uri(t, InRangeOfCell[c][n]) : n \in 1..Len(InRangeOfCell[c])}]]

ValueOf(d, tic) == d[KeyIndex(d, tic)].sectors

\* C5 (as claimed): in the mapping get_tic_to_sectors returns, for each
\* row of the table its target id is a key iff the row lists an epoch in
\* [1, 26], and the value of that key is exactly the row's in-range
\* epochs, also when a target id appears in more than one row.
C5_RowDecidesEntry ==
    Returned =>
       \A i \in 1..Len(toi_df) :
          /\ HasKey(tic_dict, toi_df[i].tic_id) <=> InRange(toi_df[i]) # <<>>
          /\ HasKey(tic_dict, toi_df[i].tic_id) =>
                ValueOf(tic_dict, toi_df[i].tic_id) = InRange(toi_df[i])

\* the in-range tokens of every row of df
InRangeOfRows(df) == [i \in 1..Len(df) |-> InRange(df[i])]

\* the rows of df with target id tic that list an in-range epoch
RowsWithEpochs(df, inr, tic) ==
    {i \in 1..Len(df) : df[i].tic_id = tic /\ inr[i] # <<>>}

LastOf(S) == CHOOSE i \in S : \A j \in S : j <= i

\* C5 (amended): in the mapping get_tic_to_sectors returns, a target id
\* is a key iff at least one row with that id lists an epoch in [1, 26],
\* no id is a key twice, and the value of a key is exactly the in-range
\* epochs of the last such row (1,30,5 gives 1,5; 30,31 alone gives no key).
C5_LastRowDecidesEntry ==
    Returned =>
       LET inr == InRangeOfRows(toi_df)
       IN /\ \A k, l \in 1..Len(tic_dict) :
                tic_dict[k].tic = tic_dict[l].tic => k = l
          /\ \A k \in 1..Len(tic_dict) :
                RowsWithEpochs(toi_df, inr, tic_dict[k].tic) # {}
          /\ \A i \in 1..Len(toi_df) :
                LET tic  == toi_df[i].tic_id
                    rows == RowsWithEpochs(toi_df, inr, tic)
                IN /\ HasKey(tic_dict, tic) <=> rows # {}
                   /\ rows # {} => ValueOf(tic_dict, tic) = inr[LastOf(rows)]

C5_Witness ==
    /\ Returned
    /\ \E i, j \in 1..Len(toi_df) :
          /\ i < j
          /\ toi_df[i].tic_id = toi_df[j].tic_id
          /\ InRange(toi_df[i]) # <<>>
          /\ InRange(toi_df[j]) # <<>>
          /\ InRange(toi_df[i]) # InRange(toi_df[j])
          /\ ValueOf(tic_dict, toi_df[j].tic_id) = InRange(toi_df[j])

\* C6: in a mapping get_tic_to_sectors returns, no key has an empty epoch
\* list and every stored epoch lies in [1, 26].
C6_NoEmptyInRange ==
    Returned =>
       \A k \in 1..Len(tic_dict) :
          /\ tic_dict[k].sectors # <<>>
          /\ \A n \in 1..Len(tic_dict[k].sectors) :
                /\ IntParses(tic_dict[k].sectors[n])
                /\ int(tic_dict[k].sectors[n]) >= 1
                /\ int(tic_dict[k].sectors[n]) <= 26

C6_Witness ==
    /\ Returned
    /\ tic_dict # <<>>
    /\ \E i \in 1..Len(toi_df) :
          /\ InRange(toi_df[i]) = <<>>
          /\ ~HasKey(tic_dict, toi_df[i].tic_id)
    /\ \E i \in 1..Len(toi_df) :
          /\ Len(InRange(toi_df[i])) < Len(Tokens(toi_df[i]))
          /\ HasKey(tic_dict, toi_df[i].tic_id)

IsDigitToken(tok) == tok # <<>> /\ IsDigitString(tok)

HasNonDigitToken(df) ==
    \E i \in 1..Len(df) :
       \E k \in 1..Len(Tokens(df[i])) : ~IsDigitToken(Tokens(df[i])[k])

\* C7: when an epoch token of a row passed to get_tic_to_sectors is not
\* a string of digits, resolution fails instead of returning a mapping
\* and no download call is issued; when every token is a string of
\* digits, parsing does not fail.
C7_NonDigitTokenIsFatal ==
    pc \notin {"main", "loaded"} =>
       /\ HasNonDigitToken(toi_df) => (~Returned /\ downloads = <<>>)
       /\ ~HasNonDigitToken(toi_df) => pc # "failed"

\* the index in df of the k-th row with an accepted disposition
KthAccepted(df, k) ==
    CHOOSE i \in 1..Len(df) :
       /\ df[i].disposition \in {"CP", "KP"}
       /\ Cardinality({j \in 1..i : df[j].disposition \in {"CP", "KP"}}) = k

\* C8: filter_positive_toi_df returns exactly the rows whose disposition
\* is CP or KP, in their original order, whatever their epochs; rows with
\* another disposition are left out without an error, a table with no
\* such row gives the empty table, and the input table is unchanged.
C8_FilterKeepsCpKp ==
    pc \notin {"main", "loaded"} =>
       /\ Len(toi_df) =
             Cardinality({j \in 1..Len(catalog) :
                             catalog[j].disposition \in {"CP", "KP"}})
       /\ \A k \in 1..Len(toi_df) : toi_df[k] = catalog[KthAccepted(catalog, k)]
       /\ catalog = cache_file.table
       /\ (pc = "resolving" /\ row = 0) => error = "none"

C8_Witness ==
    /\ pc = "resolving"
    /\ row = 0
    /\ Len(catalog) = 2
    /\ catalog[1].disposition = "FP"
    /\ catalog[2].disposition = "KP"
    /\ toi_df = <<catalog[2]>>

\* the identifiers of a mapping, key by key and epoch by epoch
RECURSIVE UrisOf(_)
UrisOf(d) ==
    IF d = <<>> THEN <<>>
    ELSE [n \in 1..Len(d[1].sectors) |-> generate_uri(d[1].tic, d[1].sectors[n])]
           \o UrisOf(Tail(d))

CallsWith(uri) ==
    Cardinality({n \in 1..Len(downloads) :
                    downloads[n].uri = uri /\ downloads[n].local_path = "positive"})

\* C9 (as claimed): when download_fits has run on a mapping, for every
\* (target id, epoch) pair of the mapping the downloader was called
\* exactly once with generate_uri(target id, epoch) and the destination
\* path, and no call was made for a pair that is not in the mapping.
C9_EachPairOnce ==
    pc = "done" =>
       /\ \A k \in 1..Len(tic_dict) :
             \A n \in 1..Len(tic_dict[k].sectors) :
                CallsWith(generate_uri(tic_dict[k].tic, tic_dict[k].sectors[n])) = 1
       /\ \A n \in 1..Len(downloads) :
             \E m \in 1..Len(UrisOf(tic_dict)) : downloads[n].uri = UrisOf(tic_dict)[m]

\* C9 (amended): download_fits calls the downloader once per occurrence
\* of an epoch in a target's list: while it runs the calls made are the
\* first identifiers of the mapping (key by key, epoch by epoch), each
\* with the destination path, whatever the results reported so far, and
\* when it has run they are all of them, so that no call is made for a
\* pair not in the mapping and a reported failure is neither retried nor
\* stops the remaining calls.
C9_OncePerOccurrence ==
    Returned =>
       LET uris == UrisOf(tic_dict)
       IN /\ Len(downloads) <= Len(uris)
          /\ \A n \in 1..Len(downloads) :
                /\ downloads[n].uri = uris[n]
                /\ downloads[n].local_path = "positive"
          /\ pc = "done" => Len(downloads) = Len(uris)

C9_Witness ==
    /\ pc = "done"
    /\ Len(downloads) >= 3
    /\ downloads[1].result = "ERROR"
    /\ downloads[2].uri = downloads[1].uri
    /\ downloads[3].uri # downloads[1].uri

\* the identifiers of the epochs in [1, 26] of the CP and KP rows
AllowedUris(df) ==
    UNION {UrisOfCell[df[i].tic_id][df[i].sectors] :
              i \in {j \in 1..Len(df) : df[j].disposition \in {"CP", "KP"}}}

\* C10: in a run of main, a download call is issued only after filtering
\* and the resolution of the whole table have completed, and every
\* identifier handed to the downloader is generate_uri(t, e) of a catalog
\* row with target id t, disposition CP or KP and an epoch e of its list
\* in [1, 26].
C10_DownloadsOnlyResolved ==
    downloads # <<>> =>
       /\ Returned
       /\ row = Len(toi_df)
       /\ \A i \in 1..Len(toi_df) : toi_df[i].disposition \in {"CP", "KP"}
       /\ LET allowed == AllowedUris(catalog)
          IN \A n \in 1..Len(downloads) : downloads[n].uri \in allowed

C10_Witness ==
    /\ pc = "done"
    /\ downloads # <<>>
    /\ \E i \in 1..Len(catalog) :
          /\ catalog[i].disposition = "FP"
          /\ InRange(catalog[i]) # <<>>
          /\ \A n \in 1..Len(downloads) :
                \A m \in 1..Len(InRange(catalog[i])) :
                   downloads[n].uri
                      # generate_uri(catalog[i].tic_id, InRange(catalog[i])[m])

====
